---- MODULE Spec2Model ----
(***************************************************************************)
(* A model of scripts/daily-summary.ts: the branch/commit collector, the   *)
(* diff chunker (chunkBySize) and the three-level summarisation run that   *)
(* ends with the delivery to the Lark webhook.                             *)
(*                                                                         *)
(* Text is modelled as a sequence of one-character strings where the code  *)
(* measures or cuts it (file-patch units, chunks) and as a sequence of     *)
(* tokens where the code only concatenates it (summaries, the digest).     *)
(***************************************************************************)
EXTENDS Integers, Sequences, FiniteSets, TLC

VARIABLES
    pc,                   \* position of the script
    exitCode,             \* "running", or the process's exit status "0" / "1"
    exitFrom,             \* where the process was ended before its last line
    OPENAI_API_KEY,       \* line 40: "" when the variable is not set
    LARK_WEBHOOK_URL,     \* line 41: "" when the variable is not set
    REPO_PATH,            \* line 43: "." or another path
    PER_BRANCH_LIMIT,     \* line 45
    DIFF_CHUNK_MAX_CHARS, \* lines 46-49
    remoteBranches,       \* line 112
    rbIdx,                \* index of `rb` in the loop of line 132
    branchList,           \* per branch, the `list` of line 135 before the cap
    branchToCommits,      \* line 130
    shaToBranches,        \* line 144
    allShasOrdered,       \* line 155
    commitShas,           \* line 162
    commitMetas,          \* line 176
    parts,                \* chunkBySize: its argument `parts`
    out,                  \* chunkBySize: `out`
    buf,                  \* chunkBySize: `buf`
    k,                    \* chunkBySize: index of the unit `p` of the for-of loop
    i,                    \* chunkBySize: `i` of the slicing loop
    sliceCont,            \* per emitted chunk: is it a slice with i > 0
    perCommitFinal,       \* line 417
    m,                    \* index of `meta` in the loop of line 419
    partSummaries,        \* line 433
    daily,                \* line 461
    chatLog,              \* the requests sent to the generation service
    dailyPrompt,          \* the prompt of the daily-merge request
    larkCalls,            \* the texts postToLark was called with
    webhookPosts          \* requests sent to the webhook

vars == <<pc, exitCode, exitFrom, OPENAI_API_KEY, LARK_WEBHOOK_URL, REPO_PATH,
          PER_BRANCH_LIMIT, DIFF_CHUNK_MAX_CHARS, remoteBranches, rbIdx,
          branchList, branchToCommits, shaToBranches, allShasOrdered, commitShas,
          commitMetas, parts, out, buf, k, i, sliceCont, perCommitFinal, m,
          partSummaries, daily, chatLog, dailyPrompt, larkCalls, webhookPosts>>

envVars == <<OPENAI_API_KEY, LARK_WEBHOOK_URL, REPO_PATH, PER_BRANCH_LIMIT,
             DIFF_CHUNK_MAX_CHARS>>
procVars == <<exitCode, exitFrom, envVars>>
collectVars == <<remoteBranches, rbIdx, branchList, branchToCommits, shaToBranches,
                 allShasOrdered, commitShas, commitMetas>>
chunkVars == <<parts, out, buf, k, i, sliceCont>>
mainVars == <<perCommitFinal, m, partSummaries, daily>>
ioVars == <<chatLog, dailyPrompt, larkCalls, webhookPosts>>

(***************************************************************************)
(* Bounds of the model.                                                    *)
(***************************************************************************)
MaxChars == 8        \* most characters in the units of one call of chunkBySize
MaxLimit == 5        \* largest size limit tried on the chunker
MaxShas == 3         \* commits in the window
MaxAll == 2          \* longest listing over all refs
MaxCap == 2          \* largest per-branch cap tried on the collector
MaxCommits == 2      \* longest reporting sequence handed to the main flow
RunLimit == 2        \* DIFF_CHUNK_MAX_CHARS of the runs of the main flow

Min(a, b) == IF a < b THEN a ELSE b

Range(s) == {s[j] : j \in 1..Len(s)}

SeqsUpTo(S, n) == UNION {[1..j -> S] : j \in 0..n}

DupFree(s) == \A x, y \in 1..Len(s) : x # y => s[x] # s[y]

DupFreeSeqs(S) == {s \in SeqsUpTo(S, Cardinality(S)) : DupFree(s)}

(***************************************************************************)
(* The repository as git shows it: commit hashes, each with a commit time  *)
(* (two commits may carry the same time), and the branches of origin.      *)
(***************************************************************************)
ShaNames == <<"c1", "c2", "c3", "c4", "c5">>

Shas(n) == {ShaNames[j] : j \in 1..n}

ShaIndex(sha) == CHOOSE j \in 1..Len(ShaNames) : ShaNames[j] = sha

CommitTime(sha) == (ShaIndex(sha) + 1) \div 2

BranchNames == <<"origin/dev", "origin/main">>

Branches == Range(BranchNames)

\* Array.prototype.sort() on branch names (line 182).
RECURSIVE SortedBranches(_)
SortedBranches(S) ==
    IF S = {} THEN <<>>
    ELSE LET first == CHOOSE b \in S : \A c \in S :
                 (CHOOSE j \in 1..Len(BranchNames) : BranchNames[j] = b)
                     <= (CHOOSE j \in 1..Len(BranchNames) : BranchNames[j] = c)
         IN <<first>> \o SortedBranches(S \ {first})

\* What `git for-each-ref` can print (line 113): the branches of origin,
\* sorted by name; nothing when the command fails.
RemoteBranchListings == {SortedBranches(S) : S \in SUBSET Branches}

(***************************************************************************)
(* Start-up checks (lines 59-81).                                          *)
(***************************************************************************)
\* process.exit(code), or the catch of line 489 after a rejection.
Exit(code) ==
    /\ pc' = "exit"
    /\ exitCode' = code
    /\ exitFrom' = pc

Continue(to) ==
    /\ pc' = to
    /\ UNCHANGED <<exitCode, exitFrom>>

\* lines 59-62
CheckApiKey ==
    /\ pc = "start"
    /\ IF OPENAI_API_KEY = "" THEN Exit("1")
       ELSE Continue("path")
    /\ UNCHANGED <<envVars, collectVars, chunkVars, mainVars, ioVars>>

\* lines 65-81; the two existsSync calls answer for the file system.
CheckRepoPath ==
    /\ pc = "path"
    /\ \E exists \in BOOLEAN, isGit \in BOOLEAN :
          IF REPO_PATH # "." /\ ~exists THEN Exit("1")
          ELSE IF REPO_PATH # "." /\ ~isGit THEN Exit("1")
          ELSE Continue("fetch")
    /\ UNCHANGED <<envVars, collectVars, chunkVars, mainVars, ioVars>>

(***************************************************************************)
(* Branch and commit collection (lines 104-184).                           *)
(***************************************************************************)
\* lines 104-108: the fetch, whose failure is ignored.
Fetch ==
    /\ pc = "fetch"
    /\ pc' = "branches"
    /\ UNCHANGED <<procVars, collectVars, chunkVars, mainVars, ioVars>>

\* lines 112-117
ListRemoteBranches ==
    /\ pc = "branches"
    /\ remoteBranches' \in RemoteBranchListings
    /\ rbIdx' = 1
    /\ pc' = "log"
    /\ UNCHANGED <<procVars, branchList, branchToCommits, shaToBranches,
                   allShasOrdered, commitShas, commitMetas, chunkVars, mainVars,
                   ioVars>>

\* Array.prototype.slice(-cap) (line 140): a negative start counts from the
\* end, and -0 is 0, the start of the array.
SliceLast(list, cap) ==
    IF cap = 0 THEN list
    ELSE SubSeq(list, Len(list) - Min(cap, Len(list)) + 1, Len(list))

\* One iteration of the loop of lines 132-141; L is what the listing command
\* can print for a branch (nothing when it fails).
ListBranchCommits(L) ==
    /\ pc = "log"
    /\ rbIdx <= Len(remoteBranches)
    /\ \E list \in L :
          LET rb == remoteBranches[rbIdx]
          IN /\ branchList' = branchList @@ (rb :> list)
             /\ branchToCommits' =
                    branchToCommits @@ (rb :> SliceLast(list, PER_BRANCH_LIMIT))
    /\ rbIdx' = rbIdx + 1
    /\ UNCHANGED <<pc, procVars, remoteBranches, shaToBranches,
                   allShasOrdered, commitShas, commitMetas, chunkVars, mainVars,
                   ioVars>>

\* A variant of lines 147-148 that records a branch only for a hash it is
\* the first to list.
ReverseIndexFirstBranch(rbs, b2c) ==
    [sha \in UNION {Range(b2c[rb]) : rb \in Range(rbs)} |->
        {rb \in Range(rbs) :
            /\ sha \in Range(b2c[rb])
            /\ \A j \in 1..Len(rbs) :
                  sha \in Range(b2c[rbs[j]])
                      => \E x \in 1..j : rbs[x] = rb}]

\* lines 144-150: hash -> the branches whose capped listing holds it.
ReverseIndex(rbs, b2c) ==
    [sha \in UNION {Range(b2c[rb]) : rb \in Range(rbs)} |->
        {rb \in Range(rbs) : sha \in Range(b2c[rb])}]

BuildShaToBranches ==
    /\ pc = "log"
    /\ rbIdx > Len(remoteBranches)
    /\ shaToBranches' = ReverseIndex(remoteBranches, branchToCommits)
    /\ pc' = "all"
    /\ UNCHANGED <<procVars, remoteBranches, rbIdx, branchList,
                   branchToCommits, allShasOrdered, commitShas, commitMetas,
                   chunkVars, mainVars, ioVars>>

\* lines 153-158; A is what the listing over all refs can print.
ListAllShas(A) ==
    /\ pc = "all"
    /\ allShasOrdered' \in A
    /\ pc' = "filter"
    /\ UNCHANGED <<procVars, remoteBranches, rbIdx, branchList,
                   branchToCommits, shaToBranches, commitShas, commitMetas,
                   chunkVars, mainVars, ioVars>>

\* A variant of lines 161-167 without the test of line 163.
RECURSIVE FilterShasKeepsRepeats(_, _, _)
FilterShasKeepsRepeats(all, index, seen) ==
    IF all = <<>> THEN <<>>
    ELSE IF Head(all) \notin index
         THEN FilterShasKeepsRepeats(Tail(all), index, seen)
         ELSE <<Head(all)>> \o FilterShasKeepsRepeats(Tail(all), index, seen)

\* lines 161-167: the filter callback, with `seen` the hashes kept so far.
RECURSIVE FilterShas(_, _, _)
FilterShas(all, index, seen) ==
    IF all = <<>> THEN <<>>
    ELSE LET sha == Head(all)
         IN IF sha \in seen THEN FilterShas(Tail(all), index, seen)
            ELSE IF sha \notin index THEN FilterShas(Tail(all), index, seen)
            ELSE <<sha>> \o FilterShas(Tail(all), index, seen \cup {sha})

\* A variant of line 169 that never ends the run early.
NeverNothingToReport(shas) == FALSE

\* line 169
NothingToReport(shas) == Len(shas) = 0

\* lines 161-172
FilterCommitShas ==
    /\ pc = "filter"
    /\ LET shas == FilterShas(allShasOrdered, DOMAIN shaToBranches, {})
       IN /\ commitShas' = shas
          /\ IF NothingToReport(shas) THEN Exit("0")
             ELSE Continue("metas")
    /\ UNCHANGED <<envVars, remoteBranches, rbIdx, branchList, branchToCommits,
                   shaToBranches, allShasOrdered, commitMetas, chunkVars,
                   mainVars, ioVars>>

\* lines 176-184: the record of one commit; title and author are what
\* `git show` prints for the hash (REPO is not set: line 181).
CommitMeta(sha, index) ==
    [sha |-> sha,
     title |-> <<"title", sha, 0>>,
     author |-> <<"author", sha, 0>>,
     url |-> <<"https://github.com", "commit", sha>>,
     branches |-> SortedBranches(IF sha \in DOMAIN index THEN index[sha] ELSE {})]

\* lines 176-184, and the entry into the main flow (line 416).  `git show`
\* of a hash that the listing has just printed is taken to succeed.
BuildCommitMetas ==
    /\ pc = "metas"
    /\ commitMetas' =
           [j \in 1..Len(commitShas) |-> CommitMeta(commitShas[j], shaToBranches)]
    /\ m' = 1
    /\ pc' = "diff"
    /\ UNCHANGED <<procVars, remoteBranches, rbIdx, branchList, branchToCommits,
                   shaToBranches, allShasOrdered, commitShas, chunkVars,
                   perCommitFinal, partSummaries, daily, ioVars>>

(***************************************************************************)
(* Patches.  NL is the line feed; the separator chunkBySize puts between   *)
(* two units is two of them; DIFFHDR stands for one whole header line      *)
(* `diff --git a/... b/...`.                                               *)
(***************************************************************************)
NL == "\n"

Letters == {"a"}

DIFFHDR == "diff --git"

SEP == <<NL, NL>>

\* A file-patch unit as splitPatchByFile returns it: trimmed (no white space
\* at either end), not empty, and with no blank line inside, since every line
\* of a patch of `git diff` starts with a marker character.
IsUnit(s) ==
    /\ Len(s) >= 1
    /\ s[1] # NL
    /\ s[Len(s)] # NL
    /\ \A j \in 1..(Len(s) - 1) : ~(s[j] = NL /\ s[j + 1] = NL)

Units(n) == {s \in SeqsUpTo(Letters \cup {NL}, n) : IsUnit(s)}

\* The sequences of units of at most n characters in all.
RECURSIVE UnitSeqs(_)
UnitSeqs(n) ==
    {<<>>} \cup UNION {{<<u>> \o rest : rest \in UnitSeqs(n - Len(u))} :
                          u \in Units(n)}

\* The text `git diff` prints for a commit that touches the files whose
\* patches are `units`, after the trim of sh() (line 88).
RECURSIVE Patch(_)
Patch(units) ==
    IF units = <<>> THEN <<>>
    ELSE <<DIFFHDR, NL>> \o Head(units)
             \o (IF Len(units) > 1 THEN <<NL>> \o Patch(Tail(units)) ELSE <<>>)

\* String.prototype.trim() on the line feeds at both ends.
RECURSIVE Trim(_)
Trim(s) ==
    IF s = <<>> THEN s
    ELSE IF s[1] = NL THEN Trim(Tail(s))
    ELSE IF s[Len(s)] = NL THEN Trim(SubSeq(s, 1, Len(s) - 1))
    ELSE s

\* patch.split(/^diff --git.*$/m) (line 220): the pieces between header lines.
RECURSIVE SplitAtHeaders(_)
SplitAtHeaders(s) ==
    IF \E j \in 1..Len(s) : s[j] = DIFFHDR
    THEN LET j == CHOOSE x \in 1..Len(s) :
                      s[x] = DIFFHDR /\ \A y \in 1..(x - 1) : s[y] # DIFFHDR
         IN <<SubSeq(s, 1, j - 1)>> \o SplitAtHeaders(SubSeq(s, j + 1, Len(s)))
    ELSE <<s>>

\* lines 218-222
splitPatchByFile(patch) ==
    IF patch = <<>> THEN <<>>
    ELSE LET pieces == SplitAtHeaders(patch)
             trimmed == [j \in 1..Len(pieces) |-> Trim(pieces[j])]
         IN SelectSeq(trimmed, LAMBDA p : p # <<>>)

\* String.prototype.slice(from, to) for 0 <= from <= to.
Slice(s, from, to) == SubSeq(s, from + 1, Min(to, Len(s)))

(***************************************************************************)
(* chunkBySize (lines 224-245), one action per iteration of its loops.     *)
(***************************************************************************)
\* A variant of line 228 that puts the new unit before the buffer.
CandidatePrepends(b, p) == IF b # <<>> THEN p \o SEP \o b ELSE p

\* line 228
Candidate(b, p) == IF b # <<>> THEN b \o SEP \o p ELSE p

\* A variant of lines 229 and 231 that lets one character too many pass.
ExceedsByTwo(s, limit) == Len(s) > limit + 1

\* lines 229 and 231: `x.length > limit`
Exceeds(s, limit) == Len(s) > limit

\* lines 230 and 243: `if (buf) out.push(buf)`
Flushed(o, b) == IF b # <<>> THEN Append(o, b) ELSE o

FlushedCont(c, b) == IF b # <<>> THEN Append(c, FALSE) ELSE c

\* One iteration of the for-of loop of line 227, up to the slicing loop.
ChunkUnit ==
    /\ pc = "chunk"
    /\ k <= Len(parts)
    /\ LET p == parts[k]
           candidate == Candidate(buf, p)
       IN IF Exceeds(candidate, DIFF_CHUNK_MAX_CHARS)
          THEN /\ out' = Flushed(out, buf)
               /\ sliceCont' = FlushedCont(sliceCont, buf)
               /\ IF Exceeds(p, DIFF_CHUNK_MAX_CHARS)
                  THEN /\ i' = 0
                       /\ pc' = "slice"
                       /\ UNCHANGED <<buf, k>>
                  ELSE /\ buf' = p
                       /\ k' = k + 1
                       /\ UNCHANGED <<i, pc>>
          ELSE /\ buf' = candidate
               /\ k' = k + 1
               /\ UNCHANGED <<out, sliceCont, i, pc>>
    /\ UNCHANGED <<procVars, collectVars, parts, mainVars, ioVars>>

\* The array `out` holds at most MaxOut chunks in the model: one more than
\* the characters of the longest input.
MaxOut == MaxChars + 1

\* line 233
NextSlice(p, from, limit) == Slice(p, from, from + limit)

\* One iteration of the loop of lines 232-234; the iteration after which the
\* loop test fails also runs line 235 and moves to the next unit.
SliceStep ==
    /\ pc = "slice"
    /\ Len(out) < MaxOut
    /\ LET p == parts[k]
           limit == DIFF_CHUNK_MAX_CHARS
       IN /\ i < Len(p)
          /\ out' = Append(out, NextSlice(p, i, limit))
          /\ sliceCont' = Append(sliceCont, i > 0)
          /\ i' = i + limit
          /\ IF i + limit < Len(p)
             THEN UNCHANGED <<buf, k, pc>>
             ELSE /\ buf' = <<>>
                  /\ k' = k + 1
                  /\ pc' = "chunk"
    /\ UNCHANGED <<procVars, collectVars, parts, mainVars, ioVars>>

\* lines 243-244: the last flush and the return.
ChunkReturn ==
    /\ pc = "chunk"
    /\ k > Len(parts)
    /\ out' = Flushed(out, buf)
    /\ sliceCont' = FlushedCont(sliceCont, buf)
    /\ pc' = "chunked"
    /\ UNCHANGED <<procVars, collectVars, parts, buf, k, i, mainVars,
                   ioVars>>

(***************************************************************************)
(* Summaries and prompts.  A text the code only passes on or concatenates  *)
(* is a sequence of tokens <<kind, hash, index>>.                           *)
(***************************************************************************)
Tok(kind, sha, idx) == <<kind, sha, idx>>

NL1 == Tok("\n", "", 0)

NL2 == Tok("\n\n", "", 0)

RULE == Tok("\n\n---\n\n", "", 0)

\* Array.prototype.join(sep) on texts.
RECURSIVE Join(_, _)
Join(texts, sep) ==
    IF texts = <<>> THEN <<>>
    ELSE IF Len(texts) = 1 THEN texts[1]
    ELSE texts[1] \o <<sep>> \o Join(Tail(texts), sep)

\* line 425
EmptyPatchSummary == <<Tok("no effective change", "", 0)>>

\* What the generation service answers to a request: the text it wrote for
\* it ("ok"), a 2xx answer without content ("empty"), or a failure of the
\* call, such as a status outside 2xx ("error").
ChatOutcomes == {"ok", "empty", "error"}

\* lines 292-303: the value chat() resolves with.
ChatContent(outcome, reply) == IF outcome = "ok" THEN <<reply>> ELSE <<>>

\* lines 436-441
PartSummary(outcome, meta, idx) ==
    IF outcome = "error" THEN <<Tok("part call failed", "", idx)>>
    ELSE LET sum == ChatContent(outcome, Tok("part summary", meta.sha, idx))
         IN IF sum # <<>> THEN sum ELSE <<Tok("part summary empty", "", idx)>>

\* A variant of line 449 that keeps the first chunk summary only.
MergedSummaryKeepsFirst(outcome, meta, summaries) ==
    IF outcome = "error"
    THEN (IF summaries = <<>> THEN <<>> ELSE summaries[1])
    ELSE ChatContent(outcome, Tok("commit summary", meta.sha, 0))

\* lines 445-450
MergedSummary(outcome, meta, summaries) ==
    IF outcome = "error" THEN Join(summaries, NL2)
    ELSE ChatContent(outcome, Tok("commit summary", meta.sha, 0))

BranchToks(meta) ==
    [j \in 1..Len(meta.branches) |-> Tok("branch", meta.branches[j], 0)]

\* lines 365-371: the body of the daily prompt.
DailyPromptBody(items) ==
    Join([j \in 1..Len(items) |->
             <<Tok("sha7", items[j].meta.sha, 0), items[j].meta.title,
               items[j].meta.author>>
                 \o BranchToks(items[j].meta) \o <<NL1>> \o items[j].summary],
         RULE)

\* lines 375-385
dailyMergePrompt(items) ==
    <<Tok("daily prompt begin", "", 0)>> \o DailyPromptBody(items)
        \o <<Tok("daily prompt end", "", 0)>>

FailureMarker == Tok("daily merge failed", "", 0)

\* A variant of lines 467-474 that lists the commits without their summaries.
DailyFallbackTitlesOnly(items) ==
    <<FailureMarker, NL2>>
        \o Join([j \in 1..Len(items) |->
                    <<Tok("sha7", items[j].meta.sha, 0), items[j].meta.title>>
                        \o BranchToks(items[j].meta)],
                RULE)

\* lines 467-474
DailyFallback(items) ==
    <<FailureMarker, NL2>>
        \o Join([j \in 1..Len(items) |->
                    <<Tok("sha7", items[j].meta.sha, 0), items[j].meta.title>>
                        \o BranchToks(items[j].meta) \o <<NL1>>
                        \o items[j].summary],
                RULE)

\* lines 461-475
DailyText(outcome, items) ==
    IF outcome = "error" THEN DailyFallback(items)
    ELSE ChatContent(outcome, Tok("daily report", "", 0))

\* lines 478-479
FinalMessage(text) == <<Tok("keyword", "", 0), NL2>> \o text

\* The log of the requests chat() has sent, with what came back.
Logged(level, sha, idx, outcome) ==
    Append(chatLog, [level |-> level, sha |-> sha, idx |-> idx,
                     outcome |-> outcome])

(***************************************************************************)
(* The main flow (lines 416-492).                                          *)
(***************************************************************************)
\* lines 420-431: the diff of the commit and, unless it is empty, its split
\* into units and the call of chunkBySize.  P is what `git diff` can print.
GetDiff(P) ==
    /\ pc = "diff"
    /\ m <= Len(commitMetas)
    /\ \E fullPatch \in P :
          IF fullPatch = <<>>
          THEN /\ perCommitFinal' =
                      Append(perCommitFinal,
                             [meta |-> commitMetas[m],
                              summary |-> EmptyPatchSummary])
               /\ m' = m + 1
               /\ UNCHANGED <<pc, chunkVars>>
          ELSE /\ parts' = splitPatchByFile(fullPatch)
               /\ out' = <<>>
               /\ buf' = <<>>
               /\ k' = 1
               /\ i' = 0
               /\ sliceCont' = <<>>
               /\ pc' = "chunk"
               /\ UNCHANGED <<perCommitFinal, m>>
    /\ UNCHANGED <<procVars, collectVars, partSummaries, daily, ioVars>>

\* One iteration of the loop of lines 434-442; `out` holds the chunks.
SummarizeChunk(O) ==
    /\ pc = "chunked"
    /\ Len(partSummaries) < Len(out)
    /\ \E outcome \in O :
          LET idx == Len(partSummaries) + 1
          IN /\ partSummaries' =
                    Append(partSummaries, PartSummary(outcome, commitMetas[m], idx))
             /\ chatLog' = Logged("chunk", commitMetas[m].sha, idx, outcome)
    /\ UNCHANGED <<pc, procVars, collectVars, chunkVars, perCommitFinal,
                   m, daily, dailyPrompt, larkCalls, webhookPosts>>

\* lines 445-452, and the end of the iteration, which drops its locals.
MergeCommit(O) ==
    /\ pc = "chunked"
    /\ Len(partSummaries) = Len(out)
    /\ \E outcome \in O :
          /\ perCommitFinal' =
                 Append(perCommitFinal,
                        [meta |-> commitMetas[m],
                         summary |-> MergedSummary(outcome, commitMetas[m],
                                                   partSummaries)])
          /\ chatLog' = Logged("commit", commitMetas[m].sha, 0, outcome)
    /\ m' = m + 1
    /\ pc' = "diff"
    /\ parts' = <<>>
    /\ out' = <<>>
    /\ buf' = <<>>
    /\ k' = 1
    /\ i' = 0
    /\ sliceCont' = <<>>
    /\ partSummaries' = <<>>
    /\ UNCHANGED <<procVars, collectVars, daily, dailyPrompt, larkCalls,
                   webhookPosts>>

\* lines 461-475
DailyMerge(O) ==
    /\ pc = "diff"
    /\ m > Len(commitMetas)
    /\ dailyPrompt' = dailyMergePrompt(perCommitFinal)
    /\ \E outcome \in O :
          /\ daily' = DailyText(outcome, perCommitFinal)
          /\ chatLog' = Logged("daily", "", 0, outcome)
    /\ pc' = "post"
    /\ UNCHANGED <<procVars, collectVars, chunkVars, perCommitFinal, m,
                   partSummaries, larkCalls, webhookPosts>>

\* The script runs to its last line and node ends the process.
Done ==
    /\ pc' = "done"
    /\ exitCode' = "0"
    /\ UNCHANGED exitFrom

\* lines 478-492 with postToLark (lines 389-413): without a webhook URL the
\* text is printed; with one, the request either completes or emits
\* `error`, which rejects the promise and reaches the catch of line 489.
PostToLark ==
    /\ pc = "post"
    /\ larkCalls' = Append(larkCalls, FinalMessage(daily))
    /\ IF LARK_WEBHOOK_URL = ""
       THEN /\ Done
            /\ UNCHANGED webhookPosts
       ELSE /\ webhookPosts' = webhookPosts + 1
            /\ \E delivered \in BOOLEAN : IF delivered THEN Done ELSE Exit("1")
    /\ UNCHANGED <<envVars, collectVars, chunkVars, mainVars, chatLog,
                   dailyPrompt>>

(***************************************************************************)
(* Specifications.                                                         *)
(***************************************************************************)
DefaultPerBranchLimit == 200

DefaultChunkMaxChars == 80000

NoCollection ==
    /\ remoteBranches = <<>>
    /\ rbIdx = 1
    /\ branchList = <<>>
    /\ branchToCommits = <<>>
    /\ shaToBranches = <<>>
    /\ allShasOrdered = <<>>
    /\ commitShas = <<>>
    /\ commitMetas = <<>>

NoChunking ==
    /\ parts = <<>>
    /\ out = <<>>
    /\ buf = <<>>
    /\ k = 1
    /\ i = 0
    /\ sliceCont = <<>>

NoSummaries ==
    /\ perCommitFinal = <<>>
    /\ m = 1
    /\ partSummaries = <<>>
    /\ daily = <<>>

NoTraffic ==
    /\ chatLog = <<>>
    /\ dailyPrompt = <<>>
    /\ larkCalls = <<>>
    /\ webhookPosts = 0

\* The whole run, from the start-up checks to the end of the process, on a
\* repository of two commits and two branches.
RunShas == {ShaNames[2], ShaNames[3]}

RunListings == DupFreeSeqs(RunShas)

RunAllListings == SeqsUpTo(RunShas, 3)

RunPatches == {<<>>, Patch(<<<<"a", "a", "a">>>>)}

RunOutcomes == {"ok", "error"}

Init ==
    /\ pc = "start"
    /\ exitCode = "running"
    /\ exitFrom = "nowhere"
    /\ OPENAI_API_KEY \in {"", "key"}
    /\ LARK_WEBHOOK_URL \in {"", "url"}
    /\ REPO_PATH \in {".", "repo"}
    /\ PER_BRANCH_LIMIT = DefaultPerBranchLimit
    /\ DIFF_CHUNK_MAX_CHARS = RunLimit
    /\ NoCollection
    /\ NoChunking
    /\ NoSummaries
    /\ NoTraffic

Next ==
    \/ CheckApiKey
    \/ CheckRepoPath
    \/ Fetch
    \/ ListRemoteBranches
    \/ ListBranchCommits(RunListings)
    \/ BuildShaToBranches
    \/ ListAllShas(RunAllListings)
    \/ FilterCommitShas
    \/ BuildCommitMetas
    \/ GetDiff(RunPatches)
    \/ ChunkUnit
    \/ SliceStep
    \/ ChunkReturn
    \/ SummarizeChunk(RunOutcomes)
    \/ MergeCommit(RunOutcomes)
    \/ DailyMerge(RunOutcomes)
    \/ PostToLark

Spec == Init /\ [][Next]_vars

\* The collector on its own, after the start-up checks have passed, for
\* every cap up to MaxCap.
InitCollect ==
    /\ pc = "fetch"
    /\ exitCode = "running"
    /\ exitFrom = "nowhere"
    /\ OPENAI_API_KEY = "key"
    /\ LARK_WEBHOOK_URL = ""
    /\ REPO_PATH = "."
    /\ PER_BRANCH_LIMIT \in 0..MaxCap
    /\ DIFF_CHUNK_MAX_CHARS = DefaultChunkMaxChars
    /\ NoCollection
    /\ NoChunking
    /\ NoSummaries
    /\ NoTraffic

NextCollect ==
    \/ Fetch
    \/ ListRemoteBranches
    \/ ListBranchCommits(DupFreeSeqs(Shas(MaxShas)))
    \/ BuildShaToBranches
    \/ ListAllShas(SeqsUpTo(Shas(MaxShas), MaxAll))
    \/ FilterCommitShas
    \/ BuildCommitMetas

SpecCollect == InitCollect /\ [][NextCollect]_vars

\* chunkBySize on its own: any sequence of units, any size limit.
InitChunk ==
    /\ pc = "chunk"
    /\ exitCode = "running"
    /\ exitFrom = "nowhere"
    /\ OPENAI_API_KEY = "key"
    /\ LARK_WEBHOOK_URL = ""
    /\ REPO_PATH = "."
    /\ PER_BRANCH_LIMIT = DefaultPerBranchLimit
    /\ DIFF_CHUNK_MAX_CHARS \in 0..MaxLimit
    /\ NoCollection
    /\ parts \in UnitSeqs(MaxChars)
    /\ out = <<>>
    /\ buf = <<>>
    /\ k = 1
    /\ i = 0
    /\ sliceCont = <<>>
    /\ NoSummaries
    /\ NoTraffic

NextChunk == ChunkUnit \/ SliceStep \/ ChunkReturn

SpecChunk == InitChunk /\ [][NextChunk]_vars

\* The main flow on its own, entered as the collector leaves it: a
\* reporting sequence of the one to MaxCommits commits of one branch, oldest
\* first.
MainPatches ==
    {<<>>,
     Patch(<<<<"a">>>>),
     Patch(<<<<"a", "a", "a">>>>),
     Patch(<<<<"a">>, <<"a", "a">>>>)}

InitMain ==
    /\ pc = "diff"
    /\ exitCode = "running"
    /\ exitFrom = "nowhere"
    /\ OPENAI_API_KEY = "key"
    /\ LARK_WEBHOOK_URL \in {"", "url"}
    /\ REPO_PATH = "."
    /\ PER_BRANCH_LIMIT = DefaultPerBranchLimit
    /\ DIFF_CHUNK_MAX_CHARS = RunLimit
    /\ remoteBranches = <<"origin/main">>
    /\ rbIdx = 2
    /\ commitShas \in {SubSeq(ShaNames, 1, n) : n \in 1..MaxCommits}
    /\ branchList = ("origin/main" :> commitShas)
    /\ branchToCommits = branchList
    /\ shaToBranches = ReverseIndex(remoteBranches, branchToCommits)
    /\ allShasOrdered = commitShas
    /\ commitMetas =
           [j \in 1..Len(commitShas) |-> CommitMeta(commitShas[j], shaToBranches)]
    /\ NoChunking
    /\ NoSummaries
    /\ NoTraffic

NextMain ==
    \/ GetDiff(MainPatches)
    \/ ChunkUnit
    \/ SliceStep
    \/ ChunkReturn
    \/ SummarizeChunk(ChatOutcomes)
    \/ MergeCommit(ChatOutcomes)
    \/ DailyMerge(ChatOutcomes)
    \/ PostToLark

SpecMain == InitMain /\ [][NextMain]_vars

(***************************************************************************)
(* The chunker's properties, checked under SpecChunk.                      *)
(***************************************************************************)
\* The units of a packed chunk: the chunk cut at the separators.
RECURSIVE SplitSep(_)
SplitSep(s) ==
    IF \E j \in 1..(Len(s) - 1) : s[j] = NL /\ s[j + 1] = NL
    THEN LET j == CHOOSE x \in 1..(Len(s) - 1) :
                      /\ s[x] = NL /\ s[x + 1] = NL
                      /\ \A y \in 1..(x - 1) : ~(s[y] = NL /\ s[y + 1] = NL)
         IN <<SubSeq(s, 1, j - 1)>> \o SplitSep(SubSeq(s, j + 2, Len(s)))
    ELSE <<s>>

\* The units read back from the chunks: a chunk that starts a unit is cut at
\* its separators, a chunk that continues a slicing is glued to the unit
\* before it.
RECURSIVE Rebuild(_, _)
Rebuild(o, c) ==
    IF o = <<>> THEN <<>>
    ELSE LET n == Len(o)
             before == Rebuild(SubSeq(o, 1, n - 1), SubSeq(c, 1, n - 1))
         IN IF c[n] /\ before # <<>>
            THEN [before EXCEPT ![Len(before)] = @ \o o[n]]
            ELSE before \o SplitSep(o[n])

\* C3: every chunk chunkBySize has emitted (flushed in the loop, sliced off
\* an oversized unit, or flushed at the end) is at most the size limit long,
\* the separators between its units counted; so is the buffer it will flush.
C3_ChunkSizeBound ==
    /\ \A j \in 1..Len(out) : Len(out[j]) <= DIFF_CHUNK_MAX_CHARS
    /\ (pc \in {"chunk", "chunked"} => Len(buf) <= DIFF_CHUNK_MAX_CHARS)

\* C3's case: the call has returned, a chunk of exactly the limit that packs
\* two units around a separator was flushed in the loop, an oversized unit
\* was sliced, and the last chunk came from the final flush.
C3_Witness ==
    /\ pc = "chunked"
    /\ \E j \in 1..(Len(out) - 1) :
          Len(SplitSep(out[j])) >= 2 /\ Len(out[j]) = DIFF_CHUNK_MAX_CHARS
    /\ \E j \in 1..Len(out) : sliceCont[j]
    /\ buf # <<>>
    /\ out[Len(out)] = buf

\* C4: when chunkBySize returns, cutting its packed chunks at the separators
\* and gluing the consecutive slices of each oversized unit gives back the
\* input units: none dropped, repeated, moved or changed.
C4_OrderPreserved ==
    pc = "chunked" => Rebuild(out, sliceCont) = parts

\* C4's case: the call has returned; of its units, which differ, one with
\* a line feed inside was sliced and two were packed into one chunk.
C4_Witness ==
    /\ pc = "chunked"
    /\ Len(parts) >= 3
    /\ \E x, y \in 1..Len(parts) : parts[x] # parts[y]
    /\ \E x \in 1..Len(parts) :
          Len(parts[x]) > DIFF_CHUNK_MAX_CHARS /\ NL \in Range(parts[x])
    /\ \E j \in 1..Len(out) : sliceCont[j]
    /\ \E j \in 1..Len(out) : Len(SplitSep(out[j])) = 2

\* C10: chunkBySize terminates and emits no empty chunk, for every size
\* limit from 0 up: each iteration of the slicing loop moves `i` forward, so
\* that the loop ends, and no chunk in `out` is the empty string.
C10_ChunkerTerminates ==
    /\ [][pc = "slice" => i' > i]_vars
    /\ [](\A j \in 1..Len(out) : out[j] # <<>>)

(***************************************************************************)
(* The collector's properties, checked under SpecCollect.                  *)
(***************************************************************************)
\* The script has left the filter of lines 161-172.
Filtered ==
    \/ pc \in {"metas", "diff", "chunk", "slice", "chunked", "post", "done"}
    \/ pc = "exit" /\ exitFrom \in {"filter", "post"}

\* The collector has finished: it ended the run at line 171 or it built
\* commitMetas.
Collected == Filtered /\ pc # "metas"

\* The tracked branches whose listing of the window holds the hash.
ReachableFrom(sha) ==
    {rb \in Range(remoteBranches) : sha \in Range(branchList[rb])}

\* The tracked branches whose listing still holds the hash after the cap.
RetainedBy(sha) ==
    {rb \in Range(remoteBranches) : sha \in Range(branchToCommits[rb])}

RecordsOf(sha) == {j \in 1..Len(commitMetas) : commitMetas[j].sha = sha}

\* The listing over all refs holds every commit a tracked branch lists.
WindowListed ==
    \A rb \in Range(remoteBranches) :
        Range(branchList[rb]) \subseteq Range(allShasOrdered)

\* C1 as stated: when the global listing holds the commits of the tracked
\* branches, a hash that two or more tracked branches list has exactly one
\* record in commitMetas, and the branches of that record are all the
\* tracked branches that list it.
C1_DedupAllBranches ==
    Collected /\ WindowListed =>
        \A sha \in Range(allShasOrdered) :
            Cardinality(ReachableFrom(sha)) >= 2 =>
                /\ Cardinality(RecordsOf(sha)) = 1
                /\ \A j \in RecordsOf(sha) :
                      Range(commitMetas[j].branches) = ReachableFrom(sha)

\* C1 as amended: a hash of the global listing that the capped listing of one
\* or more tracked branches retains has exactly one record in commitMetas,
\* whose branches are, each once, the tracked branches whose capped listing
\* retains it; no other hash has a record.
C1_DedupRetained ==
    Collected =>
        /\ \A sha \in Range(allShasOrdered) :
              RetainedBy(sha) # {} =>
                  /\ Cardinality(RecordsOf(sha)) = 1
                  /\ \A j \in RecordsOf(sha) :
                        /\ Range(commitMetas[j].branches) = RetainedBy(sha)
                        /\ Len(commitMetas[j].branches)
                               = Cardinality(RetainedBy(sha))
        /\ \A j \in 1..Len(commitMetas) :
              /\ commitMetas[j].sha \in Range(allShasOrdered)
              /\ RetainedBy(commitMetas[j].sha) # {}

\* C1's case: commitMetas is built; one hash of the global listing is
\* retained by two branches, and another, which two branches list, was cut
\* off by the cap of one of them.
C1_Witness ==
    /\ pc = "diff"
    /\ \E sha \in Range(allShasOrdered) : Cardinality(RetainedBy(sha)) >= 2
    /\ \E sha \in Range(allShasOrdered) :
          /\ Cardinality(ReachableFrom(sha)) >= 2
          /\ Cardinality(RetainedBy(sha)) = 1

\* The reverse index is built.
IndexBuilt == Filtered \/ pc \in {"all", "filter"}

\* C2: a branch contributes at most PER_BRANCH_LIMIT hashes to the reverse
\* index, and when its listing is longer than the cap the hashes kept are
\* its last PER_BRANCH_LIMIT entries, in the order of the listing.
C2_CapInvariant ==
    \A rb \in DOMAIN branchToCommits :
        /\ Len(branchToCommits[rb]) <= PER_BRANCH_LIMIT
        /\ IndexBuilt =>
               Cardinality({sha \in DOMAIN shaToBranches :
                               rb \in shaToBranches[sha]}) <= PER_BRANCH_LIMIT
        /\ Len(branchList[rb]) > PER_BRANCH_LIMIT =>
               branchToCommits[rb] =
                   SubSeq(branchList[rb],
                          Len(branchList[rb]) - PER_BRANCH_LIMIT + 1,
                          Len(branchList[rb]))

(***************************************************************************)
(* The run's properties, checked under Spec.                               *)
(***************************************************************************)
\* C7: the process ends with a non-zero status only when OPENAI_API_KEY is
\* missing or REPO_PATH names a path that does not exist or is no git
\* checkout.
C7_FatalOnly ==
    exitCode = "1" =>
        \/ exitFrom = "start" /\ OPENAI_API_KEY = ""
        \/ exitFrom = "path" /\ REPO_PATH # "."

\* C8: when the filtered reporting sequence is empty the run has ended with
\* status 0 and has sent nothing, neither to the generation service nor to
\* postToLark and the webhook.
C8_NoOp ==
    Filtered /\ commitShas = <<>> =>
        /\ pc = "exit"
        /\ exitCode = "0"
        /\ chatLog = <<>>
        /\ larkCalls = <<>>
        /\ webhookPosts = 0

\* C8's case: branches are tracked, none of them lists a commit in the
\* window, and the run has ended at line 171.
C8_Witness ==
    /\ pc = "exit"
    /\ exitFrom = "filter"
    /\ exitCode = "0"
    /\ Len(remoteBranches) = 2
    /\ \A rb \in Range(remoteBranches) : branchList[rb] = <<>>
    /\ chatLog = <<>>
    /\ larkCalls = <<>>

FirstPos(s, x) == CHOOSE j \in 1..Len(s) : s[j] = x /\ \A y \in 1..(j - 1) : s[y] # x

TimeOrdered(s) ==
    \A x, y \in 1..Len(s) : x < y => CommitTime(s[x]) <= CommitTime(s[y])

\* The hashes of the items of a daily text, in its order.
ItemShas(text) ==
    LET items == SelectSeq(text, LAMBDA t : t[1] = "sha7")
    IN [j \in 1..Len(items) |-> items[j][2]]

\* C9: the reporting sequence holds, each once and in the order of their
\* first occurrence, the hashes of the global listing that are in the
\* reverse index; it is non-decreasing in commit time when the listing is;
\* commitMetas, perCommitFinal and the daily prompt follow the same order.
C9_OrderInvariant ==
    /\ Filtered =>
          /\ DupFree(commitShas)
          /\ Range(commitShas) = Range(allShasOrdered) \cap DOMAIN shaToBranches
          /\ \A x, y \in 1..Len(commitShas) :
                x < y => FirstPos(allShasOrdered, commitShas[x])
                             < FirstPos(allShasOrdered, commitShas[y])
          /\ TimeOrdered(allShasOrdered) => TimeOrdered(commitShas)
    /\ Collected => [j \in 1..Len(commitMetas) |-> commitMetas[j].sha] = commitShas
    /\ \A j \in 1..Len(perCommitFinal) : perCommitFinal[j].meta.sha = commitShas[j]
    /\ dailyPrompt # <<>> => ItemShas(dailyPrompt) = commitShas

\* C9's case: the run is over; the global listing was oldest first, repeated
\* a hash and held commits of different times, and two commits were reported.
C9_Witness ==
    /\ pc = "done"
    /\ TimeOrdered(allShasOrdered)
    /\ ~DupFree(allShasOrdered)
    /\ Len(commitShas) = 2
    /\ CommitTime(commitShas[1]) < CommitTime(commitShas[2])
    /\ Len(perCommitFinal) = 2
    /\ dailyPrompt # <<>>

(***************************************************************************)
(* The main flow's properties, checked under SpecMain.                     *)
(***************************************************************************)
CallsOf(level, sha) ==
    SelectSeq(chatLog, LAMBDA e : e.level = level /\ e.sha = sha)

DailyFailed == \E j \in 1..Len(chatLog) :
    chatLog[j].level = "daily" /\ chatLog[j].outcome = "error"

DailyIssued == pc \in {"post", "done", "exit"}

\* The least position from `start` on at which `piece` lies in `text`; 0 if
\* there is none.
OccursFrom(text, piece, start) ==
    LET at == {p \in start..(Len(text) - Len(piece) + 1) :
                  SubSeq(text, p, p + Len(piece) - 1) = piece}
    IN IF at = {} THEN 0 ELSE CHOOSE p \in at : \A q \in at : p <= q

\* The pieces lie in the text one after the other.
RECURSIVE InOrder(_, _, _)
InOrder(text, pieces, start) ==
    IF pieces = <<>> THEN TRUE
    ELSE LET p == OccursFrom(text, Head(pieces), start)
         IN p # 0 /\ InOrder(text, Tail(pieces), p + Len(Head(pieces)))

Summaries == [j \in 1..Len(perCommitFinal) |-> perCommitFinal[j].summary]

\* A digest of the daily fallback: not empty, with the failure marker and
\* with the summary of every commit of perCommitFinal, in its order.
FallbackDigest(text) ==
    /\ text # <<>>
    /\ FailureMarker \in Range(text)
    /\ InOrder(text, Summaries, 1)

\* C5: once the daily-merge call has failed the run goes on to postToLark,
\* which is called exactly once, with a digest that is not empty and holds
\* the failure marker and every per-commit summary in reporting order.
C5_DailyFallback ==
    /\ Len(larkCalls) <= 1
    /\ DailyFailed =>
          /\ DailyIssued
          /\ FallbackDigest(daily)
          /\ pc = "post" =>
                 /\ exitCode = "running"
                 /\ larkCalls = <<>>
                 /\ ENABLED PostToLark
          /\ pc \in {"done", "exit"} =>
                 /\ Len(larkCalls) = 1
                 /\ larkCalls[1] = FinalMessage(daily)
                 /\ FallbackDigest(larkCalls[1])

\* C5's case: two commits with different summaries, the daily call failed,
\* postToLark was called and the run is over.
C5_Witness ==
    /\ pc = "done"
    /\ DailyFailed
    /\ Len(perCommitFinal) = 2
    /\ perCommitFinal[1].summary # perCommitFinal[2].summary
    /\ Len(larkCalls) = 1

\* What the chunk summary of a logged chunk call has to be.
ExpectedPart(e) ==
    IF e.outcome = "error" THEN <<Tok("part call failed", "", e.idx)>>
    ELSE IF e.outcome = "empty" THEN <<Tok("part summary empty", "", e.idx)>>
    ELSE <<Tok("part summary", e.sha, e.idx)>>

ExpectedParts(sha) ==
    LET calls == CallsOf("chunk", sha)
    IN [x \in 1..Len(calls) |-> ExpectedPart(calls[x])]

\* C6: whatever the chunk and commit calls answer, perCommitFinal holds one
\* entry per commit handled so far, in the order of commitMetas; the chunk
\* calls of a commit are numbered in chunk order and a failed one leaves the
\* placeholder of its chunk; a failed commit call leaves the chunk summaries
\* joined in chunk order; and the daily call is issued once, after the last
\* commit has its entry.
C6_FailureIsolation ==
    /\ Len(perCommitFinal) = m - 1
    /\ m - 1 <= Len(commitMetas)
    /\ \A j \in 1..Len(perCommitFinal) :
          LET sha == commitMetas[j].sha
          IN /\ perCommitFinal[j].meta = commitMetas[j]
             /\ Len(CallsOf("commit", sha)) <= 1
             /\ \A x \in 1..Len(CallsOf("chunk", sha)) :
                   CallsOf("chunk", sha)[x].idx = x
             /\ \A e \in Range(CallsOf("commit", sha)) :
                   e.outcome = "error" =>
                       perCommitFinal[j].summary = Join(ExpectedParts(sha), NL2)
    /\ pc = "chunked" =>
          /\ partSummaries = ExpectedParts(commitMetas[m].sha)
          /\ Len(partSummaries) <= Len(out)
          /\ CallsOf("commit", commitMetas[m].sha) = <<>>
    /\ Len(CallsOf("daily", "")) = (IF DailyIssued THEN 1 ELSE 0)
    /\ DailyIssued => Len(perCommitFinal) = Len(commitMetas)
    /\ pc = "diff" => ENABLED (GetDiff(MainPatches) \/ DailyMerge(ChatOutcomes))

\* C6's case: the run is over; the first commit had two chunks, one of whose
\* calls failed, and its commit call failed too; the second commit has its
\* entry and the daily call was issued.
C6_Witness ==
    /\ pc = "done"
    /\ Len(perCommitFinal) = 2
    /\ LET sha == commitMetas[1].sha
       IN /\ Len(CallsOf("chunk", sha)) = 2
          /\ \E x \in 1..2 : CallsOf("chunk", sha)[x].outcome = "error"
          /\ \E x \in 1..2 : CallsOf("chunk", sha)[x].outcome = "ok"
          /\ CallsOf("commit", sha)[1].outcome = "error"
    /\ Len(CallsOf("daily", "")) = 1

====
